---------------------------- MODULE Spec2Model ----------------------------
(***************************************************************************)
(* A model of the two-thread Peterson lock (PetersonLock.h), of the        *)
(* per-thread circular EventBuffer (EventBuffer.h / EventBuffer.cpp) and   *)
(* of the chronological merge dump_event_buffers (main.cpp), and of the    *)
(* harness exercise_lock of both main.cpp files, whose two worker threads  *)
(* pound on the lock and log into their buffers.                           *)
(*                                                                         *)
(* The lock is modelled one memory access per step.  Memory is either      *)
(* sequentially consistent (tso = FALSE: a store reaches memory at once)   *)
(* or x86-TSO (tso = TRUE: a store enters the storing thread's FIFO store  *)
(* buffer and reaches memory at a later Flush; a load is served from the   *)
(* loading thread's own buffer when it holds a store to that location;     *)
(* mfence waits until the buffer is empty).                                *)
(***************************************************************************)
EXTENDS Integers, Sequences, FiniteSets, TLC

VARIABLES
    \* ---- PetersonLock --------------------------------------------------
    fenced,             \* template parameter `fenced`
    tso,                \* memory model: FALSE = SC, TRUE = store buffers
    m_interested,       \* bool m_interested[2] (as held in memory)
    m_thread_priority,  \* bool m_thread_priority (as held in memory)
    sb,                 \* per-thread store buffer (TSO only)
    pc,                 \* per-thread position in acquire / release
    depth,              \* per thread: lock calls suspended in m_wait_function
    \* ---- history variables of the lock ---------------------------------
    lastSeen,           \* value of m_interested[other] last loaded by t
    enteredBuffered,    \* t left the spin loop with stores still buffered
    overtakes,          \* entries of the other thread since t began to wait
    priorityUnwritten,  \* m_thread_priority in memory is still as constructed
    waits,              \* calls of m_wait_function in t's current acquire
    otherState,         \* what the other thread did during t's current acquire
    \* ---- EventBuffer, LOG and the two dumps ----------------------------
    now,                \* last reading of mach_absolute_time()
    clock,              \* readings mach_absolute_time() has yet to return
    start_time,         \* exercise_lock's start_time
    event_buffer,       \* EventBuffer event_buffer[2]
    logSite,            \* per thread: which LOG of the worker loop is next
    phase,              \* "logging", "dump", "dumped", "merge" or "merged"
    dump_id,            \* EventBuffer::dump: parameter id
    dump_count,         \* EventBuffer::dump: parameter count
    dump_n,             \* EventBuffer::dump: local n
    dump_current,       \* EventBuffer::dump: local current
    dump_end,           \* EventBuffer::dump: local end
    itor,               \* dump_event_buffers: itor[count]
    end,                \* dump_event_buffers: end[count]
    out,                \* the lines printed so far, in order
    \* ---- history variable of the buffers -------------------------------
    logged,             \* per buffer: every event pushed, oldest first
    \* ---- exercise_lock -------------------------------------------------
    variant,            \* which main.cpp: "Multithreading", "atomic_free_locking"
    shared_value,       \* volatile int shared_value (as held in memory)
    stop,               \* bool stop (as held in memory)
    done_running,       \* bool done_running[2] (as held in memory)
    start_running,      \* volatile bool start_running
    require_mutex,      \* require_mutex: the set holding its owner, if any
    cv_waiting,         \* threads blocked in done_running_cv.wait
    hpc,                \* per worker thread: position in the thread function
    loop_i,             \* per worker thread: the loop variable i
    reg,                \* per worker thread: the value ++ / -- computed
    main_pc             \* position of the thread running exercise_lock

lockVars == <<fenced, tso, m_interested, m_thread_priority, sb, pc, depth,
              lastSeen, enteredBuffered, overtakes, priorityUnwritten,
              waits, otherState>>

traceVars == <<now, clock, start_time, event_buffer, logSite, phase, dump_id,
               dump_count, dump_n, dump_current, dump_end, itor, end, out,
               logged>>

\* The locals of exercise_lock that the threads share, and their positions.
harnessCtl == <<variant, start_running, require_mutex, cv_waiting, hpc,
                loop_i, reg, main_pc>>

harnessVars == <<shared_value, stop, done_running, harnessCtl>>

\* Everything a store or a Flush can change.
memory == <<m_interested, m_thread_priority, priorityUnwritten, sb,
            shared_value, stop, done_running>>

vars == <<lockVars, traceVars, harnessVars>>

(***************************************************************************)
(* Bounds of the model.                                                    *)
(***************************************************************************)
\* Capacity of a store buffer: a store waits for a Flush when it is full.
MaxStoreBuffer == 3

Threads == {0, 1}

\* const bool other_thread = !thread;
other_thread(thread) == 1 - thread

-----------------------------------------------------------------------------
(***************************************************************************)
(* Memory accesses.                                                        *)
(***************************************************************************)
IntLoc(i) == <<"m_interested", i>>
PriLoc    == <<"m_thread_priority", 0>>
SharedLoc == <<"shared_value", 0>>
StopLoc   == <<"stop", 0>>
DoneLoc(i) == <<"done_running", i>>

\* Indices of the stores to loc pending in t's store buffer.
Pending(t, loc) == {k \in 1..Len(sb[t]) : sb[t][k].loc = loc}

MaxOf(S) == CHOOSE x \in S : \A y \in S : y <= x

\* A load by thread t: store-to-load forwarding from its own buffer, else memory.
Load(t, loc, inMemory) ==
    IF Pending(t, loc) # {} THEN sb[t][MaxOf(Pending(t, loc))].val
                            ELSE inMemory

LoadInterested(t, i) == Load(t, IntLoc(i), m_interested[i])
LoadPriority(t)      == Load(t, PriLoc, m_thread_priority)
LoadShared(t)        == Load(t, SharedLoc, shared_value)
LoadStop(t)          == Load(t, StopLoc, stop)
LoadDone(t, i)       == Load(t, DoneLoc(i), done_running[i])

\* A store can be issued unless the (finite) store buffer is full.
CanStore(t) == (~tso) \/ Len(sb[t]) < MaxStoreBuffer

\* The value v reaches location loc in memory.
MemWrite(loc, v) ==
    /\ m_interested' = IF loc[1] = "m_interested"
                       THEN [m_interested EXCEPT ![loc[2]] = v]
                       ELSE m_interested
    /\ m_thread_priority' = IF loc = PriLoc THEN v ELSE m_thread_priority
    /\ priorityUnwritten' = IF loc = PriLoc THEN FALSE ELSE priorityUnwritten
    /\ shared_value' = IF loc = SharedLoc THEN v ELSE shared_value
    /\ stop' = IF loc = StopLoc THEN v ELSE stop
    /\ done_running' = IF loc[1] = "done_running"
                       THEN [done_running EXCEPT ![loc[2]] = v]
                       ELSE done_running

\* A store by thread t: into its store buffer, or (SC) straight to memory.
Store(t, loc, v) ==
    IF tso
    THEN /\ sb' = [sb EXCEPT ![t] = Append(@, [loc |-> loc, val |-> v])]
         /\ UNCHANGED <<m_interested, m_thread_priority, priorityUnwritten,
                        shared_value, stop, done_running>>
    ELSE /\ MemWrite(loc, v)
         /\ UNCHANGED sb

\* m_interested[i] = v, by thread t
StoreInterested(t, i, v) == Store(t, IntLoc(i), v)

\* m_thread_priority = v, by thread t
StorePriority(t, v) == Store(t, PriLoc, v)

\* The oldest buffered store of thread t reaches memory.
Flush(t) ==
    /\ tso
    /\ sb[t] # <<>>
    /\ MemWrite(Head(sb[t]).loc, Head(sb[t]).val)
    /\ sb' = [sb EXCEPT ![t] = Tail(@)]
    /\ UNCHANGED <<fenced, tso, depth, pc, lastSeen, enteredBuffered, overtakes,
                   waits, otherState>>
    /\ UNCHANGED <<traceVars, harnessCtl>>

-----------------------------------------------------------------------------
(***************************************************************************)
(* PetersonLock::acquire and PetersonLock::release.                        *)
(***************************************************************************)
\* The positions of a thread.
\* The loop condition has the positions a_test_* at its first evaluation in
\* a call of acquire and a_retest_* at the later ones.
TestInterested == {"a_test_interested", "a_retest_interested"}
TestPriority   == {"a_test_priority", "a_retest_priority"}
InAcquire  == {"a_assert", "a_set_interested", "a_set_priority", "a_fence",
               "a_wait"} \cup TestInterested \cup TestPriority
\* Announcement (both stores of acquire) issued, spin loop not yet left.
Announced  == {"a_fence", "a_wait"} \cup TestInterested \cup TestPriority
InRelease  == {"r_assert", "r_clear"}

\* The value acquire stores into m_thread_priority.
\* Faulty variant: the thread keeps the priority for itself.
PriorityMutSelf(thread) == thread
PriorityStored(thread) == other_thread(thread)

\* Second conjunct of the spin condition: m_thread_priority == other_thread
\* Faulty variant: the loop spins on the other's flag alone.
PriorityTestMutAlways(thread, priority) == TRUE
PriorityTest(thread, priority) == priority = other_thread(thread)

\* mfence: completes only when the thread's earlier stores are in memory.
\* Faulty variant: a fence that does not wait for the store buffer.
FenceMutNoDrain(t) == TRUE
FenceDone(t) == sb[t] = <<>>

\* The history variables are recorded in the specifications of the lock on
\* its own; with the worker threads of exercise_lock running they keep
\* their initial values.
History(recorded, kept) == IF main_pc = "unstarted" THEN recorded ELSE kept

\* Positions in which acquire has not yet stored m_interested[thread].
IdleSide == {"idle", "a_assert", "a_set_interested"}

\* What thread t can tell about the other thread when it calls acquire:
\* "busy" (the other is announced or holding), "idle" (the other is idle but
\* a store to its flag is still in its store buffer), "idle_visible".
OtherStateAtCall(t) ==
    IF pc[other_thread(t)] \notin IdleSide THEN "busy"
    ELSE IF Pending(other_thread(t), IntLoc(other_thread(t))) # {} THEN "idle"
    ELSE "idle_visible"

\* Bound of the history counter waits.
MaxWaits == 2

\* The caller invokes lock.acquire(thread).
EnterAcquire(t) ==
    /\ pc' = [pc EXCEPT ![t] = "a_assert"]
    /\ waits' = History([waits EXCEPT ![t] = 0], waits)
    /\ otherState' = History([otherState EXCEPT ![t] = OtherStateAtCall(t)],
                           otherState)
    /\ UNCHANGED <<fenced, tso, depth, memory, lastSeen, enteredBuffered, overtakes>>
    /\ UNCHANGED traceVars

\* A caller that keeps the contract calls acquire when it is idle.
CallAcquire(t) ==
    /\ pc[t] = "idle"
    /\ EnterAcquire(t)
    /\ UNCHANGED harnessCtl

\* The conditions of the two assertions.
\* Faulty variant: the assertion of acquire is compiled out.
AcquirePreconditionMutOff(t) == TRUE
AcquirePrecondition(t) == ~LoadInterested(t, t)
ReleasePrecondition(t) == LoadInterested(t, t)

\* A failed assert calls abort(): the process, with both threads, ends.
Abort == [u \in Threads |-> "aborted"]

\* assert(!m_interested[thread]);
AcquireAssert(t) ==
    /\ pc[t] = "a_assert"
    /\ pc' = IF AcquirePrecondition(t)
             THEN [pc EXCEPT ![t] = "a_set_interested"] ELSE Abort
    /\ UNCHANGED <<fenced, tso, depth, memory, lastSeen, enteredBuffered, overtakes,
                   waits, otherState>>
    /\ UNCHANGED <<traceVars, harnessCtl>>

\* m_interested[thread] = true;
AcquireSetInterested(t) ==
    /\ pc[t] = "a_set_interested"
    /\ CanStore(t)
    /\ StoreInterested(t, t, TRUE)
    /\ pc' = [pc EXCEPT ![t] = "a_set_priority"]
    /\ otherState' = History([otherState EXCEPT ![other_thread(t)] = "busy"],
                           otherState)
    /\ UNCHANGED <<fenced, tso, depth, lastSeen, enteredBuffered, overtakes, waits>>
    /\ UNCHANGED <<traceVars, harnessCtl>>

\* m_thread_priority = other_thread;   then `if (fenced)`
\* Faulty variant: the store is left out.
AcquireSetPriorityMutNoStore(t) ==
    /\ pc[t] = "a_set_priority"
    /\ pc' = [pc EXCEPT ![t] = IF fenced THEN "a_fence" ELSE "a_test_interested"]
    /\ overtakes' = History([overtakes EXCEPT ![t] = 0], overtakes)
    /\ UNCHANGED <<fenced, tso, depth, memory, lastSeen, enteredBuffered, waits,
                   otherState>>
    /\ UNCHANGED <<traceVars, harnessCtl>>
AcquireSetPriority(t) ==
    /\ pc[t] = "a_set_priority"
    /\ CanStore(t)
    /\ StorePriority(t, PriorityStored(t))
    /\ pc' = [pc EXCEPT ![t] = IF fenced THEN "a_fence" ELSE "a_test_interested"]
    /\ overtakes' = History([overtakes EXCEPT ![t] = 0], overtakes)
    /\ UNCHANGED <<fenced, tso, depth, lastSeen, enteredBuffered, waits, otherState>>
    /\ UNCHANGED <<traceVars, harnessCtl>>

\* asm volatile("mfence" ::: "memory");
AcquireFence(t) ==
    /\ pc[t] = "a_fence"
    /\ FenceDone(t)
    /\ pc' = [pc EXCEPT ![t] = "a_test_interested"]
    /\ overtakes' = History([overtakes EXCEPT ![t] = 0], overtakes)
    /\ UNCHANGED <<fenced, tso, depth, memory, lastSeen, enteredBuffered,
                   waits, otherState>>
    /\ UNCHANGED <<traceVars, harnessCtl>>

\* A call of acquire or release made from inside m_wait_function returns
\* into it: the acquire that called the wait function is still spinning.
Return(t, position) ==
    /\ pc' = [pc EXCEPT ![t] = IF depth[t] > 0 THEN "a_wait" ELSE position]
    /\ depth' = [depth EXCEPT ![t] = IF @ > 0 THEN @ - 1 ELSE @]

\* Thread t leaves the spin loop: acquire returns.
Enter(t) ==
    /\ Return(t, "cs")
    /\ enteredBuffered' = History([enteredBuffered EXCEPT ![t] = (sb[t] # <<>>)],
                                enteredBuffered)
    /\ overtakes' = History([overtakes EXCEPT ![other_thread(t)] =
                                IF pc[other_thread(t)] \in Announced /\ @ < 2
                                THEN @ + 1 ELSE @],
                          overtakes)

\* while (m_interested[other_thread] && ...   (first operand of &&)
AcquireTestInterested(t) ==
    /\ pc[t] \in TestInterested
    /\ LET seen == LoadInterested(t, other_thread(t)) IN
         /\ lastSeen' = History([lastSeen EXCEPT ![t] = seen], lastSeen)
         /\ IF seen
            THEN /\ pc' = [pc EXCEPT ![t] = IF pc[t] = "a_test_interested"
                                            THEN "a_test_priority"
                                            ELSE "a_retest_priority"]
                 /\ UNCHANGED <<depth, enteredBuffered, overtakes>>
            ELSE Enter(t)
    /\ UNCHANGED <<fenced, tso, memory, waits, otherState>>
    /\ UNCHANGED <<traceVars, harnessCtl>>

\* What m_thread_priority in the loop condition can yield.  The fields are
\* plain bool and the other thread writes them without synchronisation (a
\* data race): without the fence, whose "memory" clobber forces a load, the
\* build may take the first evaluation's value from the store just made
\* instead of loading it; every later evaluation follows the call of the
\* wait function and loads.
PriorityReadings(t) ==
    IF pc[t] = "a_test_priority" /\ ~fenced
    THEN {LoadPriority(t), PriorityStored(t)}
    ELSE {LoadPriority(t)}

\* ... && m_thread_priority == other_thread)   (second operand of &&)
AcquireTestPriority(t) ==
    /\ pc[t] \in TestPriority
    /\ \E priority \in PriorityReadings(t) :
         IF PriorityTest(t, priority)
         THEN /\ pc' = [pc EXCEPT ![t] = "a_wait"]
              /\ UNCHANGED <<depth, enteredBuffered, overtakes>>
         ELSE Enter(t)
    /\ UNCHANGED <<fenced, tso, memory, lastSeen, waits, otherState>>
    /\ UNCHANGED <<traceVars, harnessCtl>>

\* m_wait_function();   then the loop condition is evaluated again
AcquireWait(t) ==
    /\ pc[t] = "a_wait"
    /\ pc' = [pc EXCEPT ![t] = "a_retest_interested"]
    /\ waits' = History([waits EXCEPT ![t] = IF @ < MaxWaits THEN @ + 1 ELSE @],
                      waits)
    /\ UNCHANGED <<fenced, tso, depth, memory, lastSeen, enteredBuffered, overtakes,
                   otherState>>
    /\ UNCHANGED <<traceVars, harnessCtl>>

\* The holder invokes lock.release(thread).
EnterRelease(t) ==
    /\ pc' = [pc EXCEPT ![t] = "r_assert"]
    /\ UNCHANGED <<fenced, tso, depth, memory, lastSeen, enteredBuffered, overtakes,
                   waits, otherState>>
    /\ UNCHANGED traceVars

\* A caller that keeps the contract calls release when it holds the lock.
CallRelease(t) ==
    /\ pc[t] = "cs"
    /\ EnterRelease(t)
    /\ UNCHANGED harnessCtl

\* assert(m_interested[thread]);
ReleaseAssert(t) ==
    /\ pc[t] = "r_assert"
    /\ pc' = IF ReleasePrecondition(t)
             THEN [pc EXCEPT ![t] = "r_clear"] ELSE Abort
    /\ UNCHANGED <<fenced, tso, depth, memory, lastSeen, enteredBuffered, overtakes,
                   waits, otherState>>
    /\ UNCHANGED <<traceVars, harnessCtl>>

\* The flag release clears: m_interested[thread]
\* Faulty variant: release clears the other thread's flag.
ReleaseTargetMutOther(thread) == other_thread(thread)
ReleaseTarget(thread) == thread

\* m_interested[thread] = false;
ReleaseClear(t) ==
    /\ pc[t] = "r_clear"
    /\ CanStore(t)
    /\ StoreInterested(t, ReleaseTarget(t), FALSE)
    /\ Return(t, "idle")
    /\ UNCHANGED <<fenced, tso, lastSeen, enteredBuffered, overtakes, waits,
                   otherState>>
    /\ UNCHANGED <<traceVars, harnessCtl>>

\* Calls of acquire nested in wait functions that the model follows.
MaxNesting == 1

\* A call made from inside m_wait_function suspends the acquire that is
\* spinning until the call returns.
Suspend(t) ==
    IF pc[t] = "a_wait"
    THEN depth[t] < MaxNesting /\ depth' = [depth EXCEPT ![t] = @ + 1]
    ELSE UNCHANGED depth

\* A caller breaks the contract of acquire: thread t calls acquire(t) again
\* while it holds the lock, or from inside its wait function.
MisuseAcquire(t) ==
    /\ pc[t] \in {"a_wait", "cs"}
    /\ Suspend(t)
    /\ pc' = [pc EXCEPT ![t] = "a_assert"]
    /\ UNCHANGED <<fenced, tso, memory, lastSeen, enteredBuffered, overtakes,
                   waits, otherState>>
    /\ UNCHANGED <<traceVars, harnessCtl>>

\* A caller breaks the contract of release: thread t calls release(t)
\* without holding the lock, when idle or from inside its wait function.
MisuseRelease(t) ==
    /\ pc[t] \in {"idle", "a_wait"}
    /\ Suspend(t)
    /\ pc' = [pc EXCEPT ![t] = "r_assert"]
    /\ UNCHANGED <<fenced, tso, memory, lastSeen, enteredBuffered, overtakes,
                   waits, otherState>>
    /\ UNCHANGED <<traceVars, harnessCtl>>

\* The steps of acquire once called, and of release.
AcquireStep(t) ==
    \/ AcquireAssert(t)
    \/ AcquireSetInterested(t)
    \/ AcquireSetPriority(t)
    \/ AcquireTestInterested(t)
    \/ AcquireTestPriority(t)
    \/ AcquireWait(t)

ReleaseStep(t) ==
    \/ CallRelease(t)
    \/ ReleaseAssert(t)
    \/ ReleaseClear(t)

-----------------------------------------------------------------------------
(***************************************************************************)
(* Event and EventBuffer (EventBuffer.h, EventBuffer.cpp).                 *)
(***************************************************************************)
\* BUFFER_SIZE is 256 in the source; the model keeps it a power of two,
\* 2^LogBufferSize, as the static_assert demands, and scales it down.
LogBufferSize == 2

\* Number of distinct readings of mach_absolute_time() after start_time.
MaxTicks == 5

\* LOG calls of the one logging thread of SpecBuffer.
MaxLogs == 9

\* LOG calls of both threads together in SpecMerge.
MaxMergeLogs == 6

BUFFER_SIZE == 2 ^ LogBufferSize
BUFFER_SIZE_MASK == BUFFER_SIZE - 1

\* Readings of mach_absolute_time() taken by LOG.
Timestamps == {10 * k : k \in 1..MaxTicks}

\* const char *fmt = nullptr;
nullptr == "nullptr"

\* The value standing for a field left uninitialized (timestamp, line of a
\* slot never written).  No step of the model reads it.
Uninitialized == -1

\* A default-constructed Event.
NoEvent == [fmt |-> nullptr, timestamp |-> Uninitialized, line |-> Uninitialized]

\* The three LOG calls of the worker loop, in program order, with __LINE__.
LogSites ==
    <<[fmt |-> "Acquiring lock...",     line |-> 132],
      [fmt |-> "Acquiring lock...done", line |-> 134],
      [fmt |-> "Releasing lock",        line |-> 139]>>

\* explicit operator bool() const { return !!this->fmt; }
EventBool(event) == event.fmt # nullptr

\* Bitwise AND of a (two's complement, possibly negative) with mask b >= 0.
RECURSIVE BitAnd(_, _)
BitAnd(a, b) ==
    IF b = 0 THEN 0
    ELSE (a % 2) * (b % 2) + 2 * BitAnd(a \div 2, b \div 2)

\* return (value + direction) & BUFFER_SIZE_MASK;
\* The sum is taken modulo 2^32 in the source; the mask keeps only bits
\* below 2^32, which are the same bits of the unbounded two's complement sum.
\* Faulty variant: the index saturates instead of wrapping.
incrementMutNoWrap(value, direction) ==
    IF value + direction < 0 THEN 0
    ELSE IF value + direction > BUFFER_SIZE_MASK THEN BUFFER_SIZE_MASK
    ELSE value + direction
increment(value, direction) == BitAnd(value + direction, BUFFER_SIZE_MASK)

\* EventBuffer(): uint32_t m_current = BUFFER_SIZE - 1; Event m_event[BUFFER_SIZE];
NewEventBuffer ==
    [m_current |-> BUFFER_SIZE - 1,
     m_event   |-> [i \in 0..(BUFFER_SIZE - 1) |-> NoEvent]]

\* void push(const Event& event)
\* Faulty variant: the event is stored before the cursor advances.
pushMutStoreFirst(eb, event) ==
    LET current == increment(eb.m_current, 1) IN
    [m_current |-> current,
     m_event   |-> [eb.m_event EXCEPT ![eb.m_current] = event]]
push(eb, event) ==
    LET current == increment(eb.m_current, 1) IN
    [m_current |-> current,
     m_event   |-> [eb.m_event EXCEPT ![current] = event]]

\* const Event& peek(uint32_t index) const  /  const Event& peek() const
peek(eb, index) == eb.m_event[index]
peekCurrent(eb) == peek(eb, eb.m_current)

\* ConstReverseIterator(const EventBuffer* event_buffer, uint32_t index)
ConstReverseIterator(b, index) ==
    [m_event_buffer |-> b, m_current |-> index, m_increments |-> 0]

\* const EventBuffer *m_event_buffer = nullptr;   A buffer is named by its
\* index, so the pointer to no buffer is an index no buffer has.
NoBuffer == -1

\* ConstReverseIterator() = default;
DefaultIterator == [m_event_buffer |-> NoBuffer, m_current |-> 0, m_increments |-> 0]

\* ConstReverseIterator::operator++()
\* m_increments is an unsigned that wraps at 2^32, after more advances than
\* any traversal of the model makes.
IterIncrement(it) ==
    [it EXCEPT !.m_current = increment(@, -1), !.m_increments = @ + 1]

\* ConstReverseIterator::operator==
\* Faulty variant: equality of the indices alone.
IterEqMutIndexOnly(a, b) == a.m_current = b.m_current
IterEq(a, b) ==
    a.m_current = b.m_current /\ (a.m_increments > 0 \/ b.m_increments > 0)

\* ConstReverseIterator::operator!=
IterNe(a, b) == ~IterEq(a, b)

\* ConstReverseIterator::operator* and operator->
Deref(it) == peek(event_buffer[it.m_event_buffer], it.m_current)

\* ConstReverseIterator rbegin() const
rbegin(b) == ConstReverseIterator(b, event_buffer[b].m_current)

\* rend(): do { next = increment(next, 1); } while (!peek(next));
RECURSIVE SeekOldest(_, _)
SeekOldest(eb, next) ==
    LET n == increment(next, 1) IN
    IF EventBool(peek(eb, n)) THEN n ELSE SeekOldest(eb, n)

\* rend(), the special case for an empty EventBuffer
\* Faulty variant: the iterator is returned without the ++.
rendEmptyMutNoAdvance(b) ==
    ConstReverseIterator(b, event_buffer[b].m_current)
rendEmpty(b) ==
    LET initial == IF event_buffer[b].m_current + 1 = BUFFER_SIZE
                   THEN 0 ELSE event_buffer[b].m_current + 1
    IN  IterIncrement(ConstReverseIterator(b, initial))

\* rend(), a buffer holding an event: one past the oldest
\* Faulty variant: the iterator is left on the oldest event.
rendOldestMutNoStepBack(b) ==
    ConstReverseIterator(b, SeekOldest(event_buffer[b], event_buffer[b].m_current))
rendOldest(b) ==
    ConstReverseIterator(b,
        increment(SeekOldest(event_buffer[b], event_buffer[b].m_current), -1))

\* ConstReverseIterator EventBuffer::rend() const
rend(b) ==
    IF ~EventBool(peekCurrent(event_buffer[b])) THEN rendEmpty(b)
                                                ELSE rendOldest(b)

\* void Event::print(unsigned id, timestamp_t start_time) const
\* One printed line: the format, the elapsed time, the id and the line.
\* No timestamp precedes start_time, so the unsigned difference never wraps.
print(event, id, start) ==
    [fmt |-> event.fmt, elapsed |-> event.timestamp - start,
     id |-> id, line |-> event.line]

-----------------------------------------------------------------------------
(***************************************************************************)
(* LOG, EventBuffer::dump and dump_event_buffers, step by step.            *)
(***************************************************************************)
\* const unsigned count = 2;   (dump_event_buffers)
count == 2

Buffers == 0..(count - 1)

\* Limits passed to EventBuffer::dump; BUFFER_SIZE is the default argument.
DumpCounts == {0, 1, BUFFER_SIZE, BUFFER_SIZE + 1}

LogsDone == Len(logged[0]) + Len(logged[1])

\* The run is given no clock: the readings are not fixed in advance.
NoClock == <<>>

\* What the next call of mach_absolute_time() can return: the next reading of
\* the clock the run was given; given none, any value that is not earlier
\* than the last reading (the clock never runs backwards).
Readings ==
    IF clock = NoClock THEN {t \in Timestamps : t >= now} ELSE {Head(clock)}

\* mach_absolute_time() returning t.
mach_absolute_time(t) ==
    /\ t \in Readings
    /\ now' = t
    /\ clock' = IF clock = NoClock THEN clock ELSE Tail(clock)

\* LOG(events, "..."): push({fmt, mach_absolute_time(), __LINE__}) by thread b.
LOG(b) ==
    /\ phase = "logging"
    /\ \E t \in Readings :
         /\ mach_absolute_time(t)
         /\ LET event == [fmt       |-> LogSites[logSite[b] + 1].fmt,
                          timestamp |-> t,
                          line      |-> LogSites[logSite[b] + 1].line]
            IN  /\ event_buffer' = [event_buffer EXCEPT ![b] = push(@, event)]
                /\ logged' = [logged EXCEPT ![b] = Append(@, event)]
    /\ logSite' = [logSite EXCEPT ![b] = (@ + 1) % Len(LogSites)]
    /\ UNCHANGED <<start_time, phase, dump_id, dump_count, dump_n,
                   dump_current, dump_end, itor, end, out>>
    /\ UNCHANGED <<lockVars, harnessVars>>

\* event_buffer[id].dump(id, start_time, limit): up to the loop
DumpCall(id, limit) ==
    /\ phase = "logging"
    /\ phase' = "dump"
    /\ dump_id' = id
    /\ dump_count' = limit
    /\ dump_end' = rend(id)
    /\ dump_n' = 0
    /\ dump_current' = rbegin(id)
    /\ UNCHANGED <<now, clock, start_time, event_buffer, logSite, itor, end, out, logged>>
    /\ UNCHANGED <<lockVars, harnessVars>>

\* The loop condition of dump: current != end && n < count
\* Faulty variant: the limit is tested with <=.
DumpContinuesMutOffByOne ==
    IterNe(dump_current, dump_end) /\ dump_n <= dump_count
DumpContinues == IterNe(dump_current, dump_end) /\ dump_n < dump_count

\* for (...; current != end && n < count; ++current, ++n) current->print(...)
DumpStep ==
    /\ phase = "dump"
    /\ IF DumpContinues
       THEN /\ out' = Append(out, print(Deref(dump_current), dump_id, start_time))
            /\ dump_current' = IterIncrement(dump_current)
            /\ dump_n' = dump_n + 1
            /\ UNCHANGED phase
       ELSE /\ phase' = "dumped"
            /\ UNCHANGED <<out, dump_current, dump_n>>
    /\ UNCHANGED <<now, clock, start_time, event_buffer, logSite, dump_id, dump_count,
                   dump_end, itor, end, logged>>
    /\ UNCHANGED <<lockVars, harnessVars>>

\* dump_event_buffers: "Initialize our iterators"
MergeCall ==
    /\ phase = "logging"
    /\ phase' = "merge"
    /\ itor' = [i \in Buffers |-> rbegin(i)]
    /\ end'  = [i \in Buffers |-> rend(i)]
    /\ UNCHANGED <<now, clock, start_time, event_buffer, logSite, dump_id, dump_count,
                   dump_n, dump_current, dump_end, out, logged>>
    /\ UNCHANGED <<lockVars, harnessVars>>

\* itor[i]->timestamp >= latest_timestamp
\* Faulty variants: a strict comparison, and the reversed one.
TimestampTestMutGreater(timestamp, latest_timestamp) == timestamp > latest_timestamp
TimestampTestMutLess(timestamp, latest_timestamp) == timestamp <= latest_timestamp
TimestampTest(timestamp, latest_timestamp) == timestamp >= latest_timestamp

\* The condition of the if inside the scan, for iterator i.
\* Faulty variant: the cursor is not compared with its buffer's rend().
CandidateMutNoEndTest(i, latest_timestamp) ==
    /\ EventBool(Deref(itor[i]))
    /\ TimestampTest(Deref(itor[i]).timestamp, latest_timestamp)
Candidate(i, latest_timestamp) ==
    /\ IterNe(itor[i], end[i])
    /\ EventBool(Deref(itor[i]))
    /\ TimestampTest(Deref(itor[i]).timestamp, latest_timestamp)

\* for (unsigned i = 0; i < count; ++i) { if (...) { latest_itor = i; ... } }
\* from index i on, with the values of latest_itor and latest_timestamp.
RECURSIVE Scan(_, _, _)
Scan(i, latest_itor, latest_timestamp) ==
    IF i = count THEN latest_itor
    ELSE IF Candidate(i, latest_timestamp)
         THEN Scan(i + 1, i, Deref(itor[i]).timestamp)
         ELSE Scan(i + 1, latest_itor, latest_timestamp)

\* latest_timestamp = 0; latest_itor = count; and the scan
LatestItor == Scan(0, count, 0)

\* One iteration of while (true) in dump_event_buffers.
MergeStep ==
    /\ phase = "merge"
    /\ IF LatestItor = count
       THEN /\ phase' = "merged"
            /\ UNCHANGED <<itor, out>>
       ELSE /\ out' = Append(out, print(Deref(itor[LatestItor]), LatestItor,
                                        start_time))
            /\ itor' = [itor EXCEPT ![LatestItor] = IterIncrement(@)]
            /\ UNCHANGED phase
    /\ UNCHANGED <<now, clock, start_time, event_buffer, logSite, dump_id, dump_count,
                   dump_n, dump_current, dump_end, end, logged>>
    /\ UNCHANGED <<lockVars, harnessVars>>

-----------------------------------------------------------------------------
(***************************************************************************)
(* exercise_lock (both main.cpp files): two worker threads pound on the    *)
(* lock.  The worker's steps are one memory access or one call each; the   *)
(* calls of acquire and release run the lock's own steps above, and        *)
(* dump_event_buffers runs MergeCall and MergeStep.  The stores to         *)
(* shared_value, stop and done_running pass through the store buffers;     *)
(* the events of a buffer are written by their own thread only and are     *)
(* read by the dump after that thread's done_running store was seen.       *)
(* done_running_mutex and start_running_mutex are taken by one thread      *)
(* each and never contended, so they are not represented.                  *)
(***************************************************************************)
\* loop_count (argv[1]), scaled down.
LoopCount == 1

Variants == {"Multithreading", "atomic_free_locking"}

\* A mutex is the set of its owners: empty, or one thread.
Unlocked == {}

\* The three LOG calls of the worker loop of `v`, with __LINE__.
LogSitesOf(v) ==
    IF v = "atomic_free_locking" THEN LogSites
    ELSE <<[fmt |-> "Acquiring lock...",     line |-> 97],
           [fmt |-> "Acquiring lock...done", line |-> 99],
           [fmt |-> "Releasing lock",        line |-> 104]>>

Goto(t, position) == hpc' = [hpc EXCEPT ![t] = position]

\* Main thread (Multithreading): start_running = true; notify_all();
\* The store is followed by a library call and is taken to reach memory.
MainStart ==
    /\ variant = "Multithreading"
    /\ main_pc = "created"
    /\ start_running' = TRUE
    /\ main_pc' = "started"
    /\ UNCHANGED <<variant, require_mutex, cv_waiting, hpc, loop_i, reg>>
    /\ UNCHANGED <<lockVars, traceVars, shared_value, stop, done_running>>

\* Worker (Multithreading): start_running_cv.wait(startup_lock,
\* [start_running]() { return start_running; }).  The lambda captures
\* start_running by copy when the wait is called, so a worker that finds it
\* false re-evaluates the same copy at every wake-up and waits for ever.
WorkerStart(t) ==
    /\ hpc[t] = "start"
    /\ Goto(t, IF start_running THEN "loop" ELSE "start_wait")
    /\ UNCHANGED <<variant, start_running, require_mutex, cv_waiting, loop_i,
                   reg, main_pc>>
    /\ UNCHANGED <<lockVars, traceVars, shared_value, stop, done_running>>

\* What `!stop` in the loop condition can read.  stop is a plain bool written
\* by the other thread without synchronisation (a data race): the load may
\* return the value visible to the thread or the false it read before.
StopReadings(t) ==
    IF variant = "atomic_free_locking" THEN {LoadStop(t), FALSE} ELSE {FALSE}

\* for (unsigned i = 0; i < loop_count && !stop; ++i)     (the condition)
WorkerLoop(t) ==
    /\ hpc[t] = "loop"
    /\ \E seen \in StopReadings(t) :
         Goto(t, IF loop_i[t] < LoopCount /\ ~seen THEN "log1" ELSE "finish")
    /\ UNCHANGED <<variant, start_running, require_mutex, cv_waiting, loop_i,
                   reg, main_pc>>
    /\ UNCHANGED <<lockVars, traceVars, shared_value, stop, done_running>>

\* LOG calls of both workers in a run of exercise_lock.
MaxReadings == Len(LogSites) * LoopCount * 2

\* The readings of a clock that advances after every r calls: with r = 1 no
\* two calls read the same value, with r = 2 every value is read twice.
ClockOf(r) == [i \in 1..MaxReadings |-> 10 * ((i + r - 1) \div r)]

\* The coarsest clock exercise_lock is run with.
MaxCallsPerTick == 2

\* The clocks exercise_lock is run with.
HarnessClocks == {ClockOf(r) : r \in 1..MaxCallsPerTick}

LogPositions == <<"log1", "log2", "log3">>

\* Faulty variant: the loop body does not call acquire.
AfterLogMutNoAcquire == <<"log2", "inc_load", "release">>

\* The statement that follows each LOG of the loop body.
AfterLog     == <<"acquire", "inc_load", "release">>

\* LOG(events, "...") in the worker loop: events.push({fmt, mach_absolute_time(),
\* __LINE__}).
WorkerLOG(t) ==
    \E k \in 1..3 :
        /\ hpc[t] = LogPositions[k]
        /\ \E stamp \in Readings :
             /\ mach_absolute_time(stamp)
             /\ LET event == [fmt       |-> LogSitesOf(variant)[k].fmt,
                              timestamp |-> stamp,
                              line      |-> LogSitesOf(variant)[k].line]
                IN  /\ event_buffer' = [event_buffer EXCEPT ![t] = push(@, event)]
                    /\ logged' = [logged EXCEPT ![t] = Append(@, event)]
        /\ logSite' = [logSite EXCEPT ![t] = k % Len(LogSites)]
        /\ Goto(t, AfterLog[k])
        /\ UNCHANGED <<start_time, phase, dump_id, dump_count, dump_n,
                       dump_current, dump_end, itor, end, out>>
        /\ UNCHANGED <<variant, start_running, require_mutex, cv_waiting,
                       loop_i, reg, main_pc>>
        /\ UNCHANGED <<lockVars, shared_value, stop, done_running>>

\* lock.acquire(bool(tid));   (the call, whatever the state of the lock is;
\* the lock's steps follow)
WorkerCallAcquire(t) ==
    /\ hpc[t] = "acquire"
    /\ EnterAcquire(t)
    /\ Goto(t, "in_acquire")
    /\ UNCHANGED <<variant, start_running, require_mutex, cv_waiting, loop_i,
                   reg, main_pc>>

\* lock.acquire has returned.
WorkerAcquired(t) ==
    /\ hpc[t] = "in_acquire"
    /\ pc[t] = "cs"
    /\ Goto(t, "log2")
    /\ UNCHANGED <<variant, start_running, require_mutex, cv_waiting, loop_i,
                   reg, main_pc>>
    /\ UNCHANGED <<lockVars, traceVars, shared_value, stop, done_running>>

\* ++shared_value / --shared_value: the load and the addition
WorkerLoadShared(t) ==
    /\ hpc[t] \in {"inc_load", "dec_load"}
    /\ reg' = [reg EXCEPT ![t] =
                 LoadShared(t) + (IF hpc[t] = "inc_load" THEN 1 ELSE -1)]
    /\ Goto(t, IF hpc[t] = "inc_load" THEN "inc_store" ELSE "dec_store")
    /\ UNCHANGED <<variant, start_running, require_mutex, cv_waiting, loop_i,
                   main_pc>>
    /\ UNCHANGED <<lockVars, traceVars, shared_value, stop, done_running>>

\* ++shared_value / --shared_value: the store
WorkerStoreShared(t) ==
    /\ hpc[t] \in {"inc_store", "dec_store"}
    /\ CanStore(t)
    /\ Store(t, SharedLoc, reg[t])
    /\ Goto(t, IF hpc[t] = "inc_store" THEN "inc_check" ELSE "dec_check")
    /\ UNCHANGED <<fenced, tso, depth, pc, lastSeen, enteredBuffered, overtakes,
                   waits, otherState>>
    /\ UNCHANGED <<variant, start_running, require_mutex, cv_waiting, loop_i,
                   reg, main_pc>>
    /\ UNCHANGED traceVars

\* The value REQUIRE compares: the result of ++ / -- on a volatile is an
\* lvalue, which the build reads again or takes from the register.
Compared(t) == {reg[t], LoadShared(t)}

\* REQUIRE(++shared_value == 1);   REQUIRE(--shared_value == 0);
\* (the comparison, and where the macro goes when it fails)
WorkerRequire(t) ==
    /\ hpc[t] \in {"inc_check", "dec_check"}
    /\ \E value \in Compared(t) :
         Goto(t, IF value = (IF hpc[t] = "inc_check" THEN 1 ELSE 0)
                 THEN (IF hpc[t] = "inc_check" THEN "dec_load" ELSE "log3")
                 ELSE (IF variant = "Multithreading" THEN "v_release"
                                                     ELSE "v_try_lock"))
    /\ UNCHANGED <<variant, start_running, require_mutex, cv_waiting, loop_i,
                   reg, main_pc>>
    /\ UNCHANGED <<lockVars, traceVars, shared_value, stop, done_running>>

\* lock.release(bool(tid)) at the end of the loop body, and lock.release(tid)
\* in REQUIRE / handle_violation   (the call, whatever the state of the lock
\* is; the lock's steps follow)
WorkerCallRelease(t) ==
    /\ hpc[t] \in {"release", "v_release"}
    /\ EnterRelease(t)
    /\ Goto(t, IF hpc[t] = "release" THEN "in_release" ELSE "in_v_release")
    /\ UNCHANGED <<variant, start_running, require_mutex, cv_waiting, loop_i,
                   reg, main_pc>>

\* lock.release has returned at the end of the loop body; ++i
WorkerReleased(t) ==
    /\ hpc[t] = "in_release"
    /\ pc[t] = "idle"
    /\ loop_i' = [loop_i EXCEPT ![t] = @ + 1]
    /\ Goto(t, "loop")
    /\ UNCHANGED <<variant, start_running, require_mutex, cv_waiting, reg,
                   main_pc>>
    /\ UNCHANGED <<lockVars, traceVars, shared_value, stop, done_running>>

\* lock.release has returned in REQUIRE / handle_violation.
WorkerViolationReleased(t) ==
    /\ hpc[t] = "in_v_release"
    /\ pc[t] = "idle"
    /\ Goto(t, IF variant = "Multithreading" THEN "v_try_lock" ELSE "v_wait")
    /\ UNCHANGED <<variant, start_running, require_mutex, cv_waiting, loop_i,
                   reg, main_pc>>
    /\ UNCHANGED <<lockVars, traceVars, shared_value, stop, done_running>>

\* if (require_mutex.try_lock())
WorkerTryLock(t) ==
    /\ hpc[t] = "v_try_lock"
    /\ IF require_mutex = Unlocked
       THEN /\ require_mutex' = {t}
            /\ Goto(t, IF variant = "Multithreading" THEN "v_wait" ELSE "v_stop")
       ELSE /\ UNCHANGED require_mutex
            /\ Goto(t, "finish")
    /\ UNCHANGED <<variant, start_running, cv_waiting, loop_i, reg, main_pc>>
    /\ UNCHANGED <<lockVars, traceVars, shared_value, stop, done_running>>

\* stop = true;   (atomic_free_locking)
WorkerStop(t) ==
    /\ hpc[t] = "v_stop"
    /\ CanStore(t)
    /\ Store(t, StopLoc, TRUE)
    /\ Goto(t, "v_release")
    /\ UNCHANGED <<fenced, tso, depth, pc, lastSeen, enteredBuffered, overtakes,
                   waits, otherState>>
    /\ UNCHANGED <<variant, start_running, require_mutex, cv_waiting, loop_i,
                   reg, main_pc>>
    /\ UNCHANGED traceVars

\* The predicate the violating thread waits for: done_running[!tid]
\* Faulty variant: the thread does not wait.
DoneObservedMutNoWait(t) == TRUE
\* Faulty variant: the thread waits for its own flag, done_running[tid].
DoneObservedMutOwn(t) == LoadDone(t, t)
DoneObserved(t) == LoadDone(t, other_thread(t))

\* await_condition(done_running_cv, done_running_mutex, done_running[!tid]):
\* polls every 4 ms and returns once the flag is seen.   (atomic_free_locking)
WorkerAwait(t) ==
    /\ hpc[t] = "v_wait"
    /\ variant = "atomic_free_locking"
    /\ DoneObserved(t)
    /\ Goto(t, "v_dump")
    /\ UNCHANGED <<variant, start_running, require_mutex, cv_waiting, loop_i,
                   reg, main_pc>>
    /\ UNCHANGED <<lockVars, traceVars, shared_value, stop, done_running>>

\* done_running_cv.wait(done_running_lock, pred): while (!pred()) wait(lock);
\* (Multithreading: the test of the predicate)
WorkerWaitCheck(t) ==
    /\ hpc[t] = "v_wait"
    /\ variant = "Multithreading"
    /\ Goto(t, IF DoneObserved(t) THEN "v_dump" ELSE "v_block")
    /\ UNCHANGED <<variant, start_running, require_mutex, cv_waiting, loop_i,
                   reg, main_pc>>
    /\ UNCHANGED <<lockVars, traceVars, shared_value, stop, done_running>>

\* wait(lock) inside done_running_cv.wait(lock, pred): the thread becomes a
\* waiter of the condition variable.  The other thread stores its flag and
\* notifies without taking done_running_mutex, so both can happen between
\* the test of the predicate and this step.
WorkerBlock(t) ==
    /\ hpc[t] = "v_block"
    /\ cv_waiting' = cv_waiting \cup {t}
    /\ Goto(t, "v_blocked")
    /\ UNCHANGED <<variant, start_running, require_mutex, loop_i, reg, main_pc>>
    /\ UNCHANGED <<lockVars, traceVars, shared_value, stop, done_running>>

\* A condition variable may wake a waiter without a notification.
SpuriousWake(t) ==
    /\ t \in cv_waiting
    /\ cv_waiting' = cv_waiting \ {t}
    /\ UNCHANGED <<variant, start_running, require_mutex, hpc, loop_i, reg,
                   main_pc>>
    /\ UNCHANGED <<lockVars, traceVars, shared_value, stop, done_running>>

\* wait() returns to the loop of done_running_cv.wait(lock, pred).
WorkerWake(t) ==
    /\ hpc[t] = "v_blocked"
    /\ t \notin cv_waiting
    /\ Goto(t, "v_wait")
    /\ UNCHANGED <<variant, start_running, require_mutex, cv_waiting, loop_i,
                   reg, main_pc>>
    /\ UNCHANGED <<lockVars, traceVars, shared_value, stop, done_running>>

\* dump_event_buffers(event_buffer, start_time), called by the thread that
\* took require_mutex (after the printf of the failure and of shared_value).
WorkerDump ==
    /\ \E t \in Threads : hpc[t] = "v_dump"
    /\ MergeCall

\* dump_event_buffers has returned; require_mutex.unlock();
WorkerDumped(t) ==
    /\ hpc[t] = "v_dump"
    /\ phase = "merged"
    /\ require_mutex' = Unlocked
    /\ Goto(t, "finish")
    /\ UNCHANGED <<variant, start_running, cv_waiting, loop_i, reg, main_pc>>
    /\ UNCHANGED <<lockVars, traceVars, shared_value, stop, done_running>>

\* done_running[tid] = true;   (after the loop, and at the end of REQUIRE)
WorkerFinish(t) ==
    /\ hpc[t] = "finish"
    /\ CanStore(t)
    /\ Store(t, DoneLoc(t), TRUE)
    /\ Goto(t, "notify")
    /\ UNCHANGED <<fenced, tso, depth, pc, lastSeen, enteredBuffered, overtakes,
                   waits, otherState>>
    /\ UNCHANGED <<variant, start_running, require_mutex, cv_waiting, loop_i,
                   reg, main_pc>>
    /\ UNCHANGED traceVars

\* done_running_cv.notify_all();   and the thread function returns
WorkerNotify(t) ==
    /\ hpc[t] = "notify"
    /\ cv_waiting' = {}
    /\ Goto(t, "done")
    /\ UNCHANGED <<variant, start_running, require_mutex, loop_i, reg, main_pc>>
    /\ UNCHANGED <<lockVars, traceVars, shared_value, stop, done_running>>

\* thread[tid].join() for both threads; printf("shared_value = %u\n", ...).
\* A joined thread's stores have all reached memory.
MainJoin ==
    /\ main_pc = "started"
    /\ \A t \in Threads : hpc[t] = "done" /\ sb[t] = <<>>
    /\ main_pc' = "joined"
    /\ UNCHANGED <<variant, start_running, require_mutex, cv_waiting, hpc,
                   loop_i, reg>>
    /\ UNCHANGED <<lockVars, traceVars, shared_value, stop, done_running>>

\* The steps of a worker that both main.cpp share.
LoopSteps(t) ==
    \/ WorkerLoop(t)
    \/ WorkerLOG(t)
    \/ WorkerCallAcquire(t)
    \/ AcquireStep(t)
    \/ AcquireFence(t)
    \/ WorkerAcquired(t)
    \/ WorkerLoadShared(t)
    \/ WorkerStoreShared(t)
    \/ WorkerRequire(t)
    \/ WorkerCallRelease(t)
    \/ ReleaseAssert(t)
    \/ ReleaseClear(t)
    \/ WorkerReleased(t)
    \/ WorkerViolationReleased(t)
    \/ WorkerTryLock(t)
    \/ WorkerDumped(t)
    \/ WorkerFinish(t)
    \/ WorkerNotify(t)

\* The steps of worker thread t.
Worker(t) ==
    \/ WorkerStart(t)
    \/ WorkerLoop(t)
    \/ WorkerLOG(t)
    \/ WorkerCallAcquire(t)
    \/ AcquireStep(t)
    \/ AcquireFence(t)
    \/ WorkerAcquired(t)
    \/ WorkerLoadShared(t)
    \/ WorkerStoreShared(t)
    \/ WorkerRequire(t)
    \/ WorkerCallRelease(t)
    \/ ReleaseAssert(t)
    \/ ReleaseClear(t)
    \/ WorkerReleased(t)
    \/ WorkerViolationReleased(t)
    \/ WorkerTryLock(t)
    \/ WorkerStop(t)
    \/ WorkerAwait(t)
    \/ WorkerWaitCheck(t)
    \/ WorkerBlock(t)
    \/ WorkerWake(t)
    \/ WorkerDumped(t)
    \/ WorkerFinish(t)
    \/ WorkerNotify(t)

\* exercise_lock before the threads run: two empty buffers, the clock read.
TraceInit ==
    /\ now = 0
    /\ start_time = 0
    /\ event_buffer = [b \in Buffers |-> NewEventBuffer]
    /\ logSite = [b \in Buffers |-> 0]
    /\ phase = "logging"
    /\ dump_id = 0
    /\ dump_count = 0
    /\ dump_n = 0
    /\ dump_current = DefaultIterator
    /\ dump_end = DefaultIterator
    /\ itor = [i \in Buffers |-> DefaultIterator]
    /\ end = [i \in Buffers |-> DefaultIterator]
    /\ out = <<>>
    /\ logged = [b \in Buffers |-> <<>>]
    /\ shared_value = 0
    /\ stop = FALSE
    /\ done_running = [t \in Threads |-> FALSE]
    /\ start_running = FALSE
    /\ require_mutex = Unlocked
    /\ cv_waiting = {}
    /\ loop_i = [t \in Threads |-> 0]
    /\ reg = [t \in Threads |-> 0]

\* The lock or the buffers on their own: no worker thread is started.
NoThreads ==
    /\ clock = NoClock
    /\ variant = "atomic_free_locking"
    /\ hpc = [t \in Threads |-> "unstarted"]
    /\ main_pc = "unstarted"

\* exercise_lock with its threads created: Multithreading's workers wait for
\* start_running, atomic_free_locking's enter the loop at once.
ThreadsCreated ==
    /\ clock \in HarnessClocks
    /\ variant \in Variants
    /\ hpc = [t \in Threads |->
                IF variant = "Multithreading" THEN "start" ELSE "loop"]
    /\ main_pc = IF variant = "Multithreading" THEN "created" ELSE "started"

-----------------------------------------------------------------------------
(***************************************************************************)
(* PetersonLock::PetersonLock: both flags false, m_thread_priority left    *)
(* uninitialized (either value).                                           *)
(***************************************************************************)
LockInit ==
    /\ m_interested = [i \in Threads |-> FALSE]
    /\ m_thread_priority \in Threads
    /\ sb = [t \in Threads |-> <<>>]
    /\ pc = [t \in Threads |-> "idle"]
    /\ depth = [t \in Threads |-> 0]
    /\ lastSeen = [t \in Threads |-> FALSE]
    /\ enteredBuffered = [t \in Threads |-> FALSE]
    /\ overtakes = [t \in Threads |-> 0]
    /\ priorityUnwritten = TRUE
    /\ waits = [t \in Threads |-> 0]
    /\ otherState = [t \in Threads |-> "idle_visible"]

\* Sequentially consistent memory, PetersonLock<_, true> or <_, false>.
InitSC == LockInit /\ tso = FALSE /\ fenced \in BOOLEAN /\ TraceInit /\ NoThreads

NextSC ==
    \E t \in Threads :
        \/ CallAcquire(t)
        \/ AcquireStep(t)
        \/ AcquireFence(t)
        \/ ReleaseStep(t)

SpecSC == InitSC /\ [][NextSC]_vars

\* x86-TSO memory, PetersonLock<_, true>.
InitTSOFenced == LockInit /\ tso = TRUE /\ fenced = TRUE /\ TraceInit /\ NoThreads

NextTSOFenced ==
    \E t \in Threads :
        \/ CallAcquire(t)
        \/ AcquireStep(t)
        \/ AcquireFence(t)
        \/ ReleaseStep(t)
        \/ Flush(t)

SpecTSOFenced == InitTSOFenced /\ [][NextTSOFenced]_vars

\* x86-TSO memory, PetersonLock<_, false>: acquire holds no mfence.
InitTSOUnfenced == LockInit /\ tso = TRUE /\ fenced = FALSE /\ TraceInit /\ NoThreads

NextTSOUnfenced ==
    \E t \in Threads :
        \/ CallAcquire(t)
        \/ AcquireStep(t)
        \/ ReleaseStep(t)
        \/ Flush(t)

SpecTSOUnfenced == InitTSOUnfenced /\ [][NextTSOUnfenced]_vars

\* Either memory model, PetersonLock<_, true> or PetersonLock<_, false>.
InitLock ==
    LockInit /\ tso \in BOOLEAN /\ fenced \in BOOLEAN /\ TraceInit /\ NoThreads

SpecLock == InitLock /\ [][NextTSOFenced]_vars

\* x86-TSO, PetersonLock<_, true> or PetersonLock<_, false>.
InitTSO == LockInit /\ tso = TRUE /\ fenced \in BOOLEAN /\ TraceInit /\ NoThreads

SpecTSO == InitTSO /\ [][NextTSOFenced]_vars

\* Sequentially consistent memory with a fair scheduler: a thread inside
\* acquire or release, or holding the lock, eventually takes its next step.
\* Nothing obliges an idle thread to call acquire.
ThreadProgress(t) == AcquireStep(t) \/ AcquireFence(t) \/ ReleaseStep(t)

SpecSCFair == SpecSC /\ \A t \in Threads : WF_vars(ThreadProgress(t))

\* Sequentially consistent memory and callers that may break the contract
\* of acquire and release.
NextMisuse ==
    \E t \in Threads :
        \/ CallAcquire(t)
        \/ AcquireStep(t)
        \/ AcquireFence(t)
        \/ ReleaseStep(t)
        \/ MisuseAcquire(t)
        \/ MisuseRelease(t)

SpecMisuse == InitSC /\ [][NextMisuse]_vars


\* One thread logs into its buffer; then the buffer is dumped, or both
\* buffers (the other one still empty) are merged.  The lock stays as built.
InitTrace == LockInit /\ tso = FALSE /\ fenced = TRUE /\ TraceInit /\ NoThreads

NextBuffer ==
    \/ (LogsDone < MaxLogs /\ LOG(0))
    \/ \E limit \in DumpCounts : DumpCall(0, limit)
    \/ DumpStep
    \/ MergeCall
    \/ MergeStep

SpecBuffer == InitTrace /\ [][NextBuffer]_vars

\* Both threads log into their buffers; then dump_event_buffers merges them.
NextMerge ==
    \/ \E b \in Buffers : (LogsDone < MaxMergeLogs /\ LOG(b))
    \/ MergeCall
    \/ MergeStep

SpecMerge == InitTrace /\ [][NextMerge]_vars

\* exercise_lock<LockType<true>> and exercise_lock<LockType<false>> of either
\* main.cpp on x86-TSO.
InitHarness ==
    LockInit /\ tso = TRUE /\ fenced \in BOOLEAN /\ TraceInit /\ ThreadsCreated

NextHarness ==
    \/ MainStart
    \/ MainJoin
    \/ WorkerDump
    \/ MergeStep
    \/ \E t \in Threads :
         \/ Worker(t)
         \/ SpuriousWake(t)
         \/ Flush(t)

SpecHarness == InitHarness /\ [][NextHarness]_vars

\* exercise_lock under a fair scheduler: store buffers drain, the dump once
\* called runs to its end, and the main thread runs.  Each program adds that
\* a worker that can take a step eventually takes one (a spinning thread
\* keeps evaluating its loop, the timed wait of await_condition keeps
\* polling).  Nothing obliges a condition variable to wake a waiter that was
\* not notified.
Scheduling ==
    /\ \A t \in Threads : WF_vars(Flush(t))
    /\ WF_vars(WorkerDump \/ MergeStep)
    /\ WF_vars(MainStart)
    /\ WF_vars(MainJoin)

\* src/Multithreading/main.cpp on its own, under the fair scheduler.
InitMultithreading == InitHarness /\ variant = "Multithreading"

MultithreadingWorker(t) ==
    \/ WorkerStart(t)
    \/ LoopSteps(t)
    \/ WorkerWaitCheck(t)
    \/ WorkerBlock(t)
    \/ WorkerWake(t)

NextMultithreading ==
    \/ MainStart
    \/ MainJoin
    \/ WorkerDump
    \/ MergeStep
    \/ \E t \in Threads :
         \/ MultithreadingWorker(t)
         \/ SpuriousWake(t)
         \/ Flush(t)

SpecMultithreadingFair ==
    /\ InitMultithreading /\ [][NextMultithreading]_vars
    /\ \A t \in Threads : WF_vars(MultithreadingWorker(t))
    /\ Scheduling

\* src/atomic_free_locking/main.cpp on its own, under the fair scheduler.
InitAtomicFreeLocking == InitHarness /\ variant = "atomic_free_locking"

AtomicFreeLockingWorker(t) ==
    \/ LoopSteps(t)
    \/ WorkerStop(t)
    \/ WorkerAwait(t)

NextAtomicFreeLocking ==
    \/ MainJoin
    \/ WorkerDump
    \/ MergeStep
    \/ \E t \in Threads :
         \/ AtomicFreeLockingWorker(t)
         \/ Flush(t)

SpecAtomicFreeLockingFair ==
    /\ InitAtomicFreeLocking /\ [][NextAtomicFreeLocking]_vars
    /\ \A t \in Threads : WF_vars(AtomicFreeLockingWorker(t))
    /\ Scheduling

-----------------------------------------------------------------------------
(***************************************************************************)
(* Properties of the lock.                                                 *)
(***************************************************************************)
\* acquire has returned and release has not yet cleared the flag.
Holding == {"cs", "r_assert", "r_clear"}

BothInside == pc[0] \in Holding /\ pc[1] \in Holding

\* C1: under sequentially consistent memory, with or without the fence, the
\* two participants are never inside the critical section at the same time.
C1_MutualExclusionSC == ~BothInside

\* C1 witness: one participant holds the lock while the other one, having
\* seen the holder's flag and the priority against it, waits in the loop.
C1_Witness ==
    \E t \in Threads : pc[t] = "cs" /\ pc[other_thread(t)] = "a_wait"

\* C2: with the fence, under store buffers, mutual exclusion holds, and from
\* the fence to the return of acquire no store of the thread is still
\* buffered: its announcement is in memory before its first load of
\* m_interested[other].  release holds no fence: its store may stay buffered.
C2_FencedMutualExclusionTSO ==
    /\ ~BothInside
    /\ \A t \in Threads :
          pc[t] \in TestInterested \cup TestPriority \cup {"a_wait"}
              => /\ sb[t] = <<>>
                 /\ m_interested[t] = TRUE

\* C2 witness: a participant still waits in the loop while the other one has
\* left the critical section and is announcing again, its unfenced release
\* store and its next m_interested store both still in its store buffer.
C2_Witness ==
    \E t \in Threads :
        /\ pc[t] = "a_wait"
        /\ pc[other_thread(t)] = "a_set_priority"
        /\ Len(sb[other_thread(t)]) = 2

\* C3: without the fence, under store buffers, both participants can be
\* inside at once, and whenever they are, at least one of them left the spin
\* loop while its own stores were still in its store buffer.
C3_ViolationNeedsBufferedStore ==
    BothInside => \E t \in Threads : enteredBuffered[t]

\* C3 witness: both inside, each having loaded the other's flag as false.
C3_Witness ==
    /\ pc[0] = "cs" /\ pc[1] = "cs"
    /\ lastSeen[0] = FALSE /\ lastSeen[1] = FALSE

\* C4: under weak fairness, a participant that called acquire eventually
\* leaves the spin loop and holds the lock.
C4_AcquireReturns ==
    \A t \in Threads : (pc[t] \in InAcquire) ~> (pc[t] = "cs")

\* C4 witness: both participants are in the spin loop at the same time.
C4_Witness ==
    /\ pc[0] \in TestPriority \cup {"a_wait"}
    /\ pc[1] \in TestPriority \cup {"a_wait"}

\* Thread t has executed its two announcing stores (and the fence, if any)
\* and is in the spin loop.
Waiting == {"a_wait"} \cup TestInterested \cup TestPriority

\* C5 as stated: once a participant has announced (flag set, priority given
\* away) and waits, the other participant enters at most once before it
\* does, whatever the memory model and the fence setting.
C5_BoundedOvertaking ==
    \A t \in Threads : pc[t] \in Waiting => overtakes[t] <= 1

\* C5 as amended: the bound holds under sequentially consistent memory and,
\* with store buffers, for the fenced lock, where the announcing stores of a
\* waiting participant have reached memory.
C5_BoundedOvertakingVisible ==
    \A t \in Threads :
        (pc[t] \in Waiting /\ (~tso \/ fenced)) => overtakes[t] <= 1

\* C5 witness: with store buffers and the fence, the other participant
\* entered once while t was waiting and now waits itself behind t.
C5_Witness ==
    \E t \in Threads :
        /\ tso /\ fenced
        /\ pc[t] \in Waiting
        /\ overtakes[t] = 1
        /\ pc[other_thread(t)] = "a_wait"

-----------------------------------------------------------------------------
(***************************************************************************)
(* Properties of the trace buffer and of the merge.                        *)
(***************************************************************************)
Min(a, b) == IF a <= b THEN a ELSE b

\* The events buffer b should still hold, newest first: the last
\* min(n, BUFFER_SIZE) of the n events pushed into it.
NewestFirst(b) ==
    [k \in 1..Min(Len(logged[b]), BUFFER_SIZE) |->
        logged[b][Len(logged[b]) - k + 1]]

\* The lines a complete newest-to-oldest traversal of buffer b should print.
ExpectedLines(b) ==
    [k \in 1..Len(NewestFirst(b)) |-> print(NewestFirst(b)[k], b, start_time)]

IsPrefix(p, q) ==
    /\ Len(p) <= Len(q)
    /\ \A k \in 1..Len(p) : p[k] = q[k]

\* The lines of out printed for buffer b, in order.
LinesOf(b) == SelectSeq(out, LAMBDA l : l.id = b)

\* A dump whose limit cannot end the loop: only current == end can.
UnlimitedDump == phase \in {"dump", "dumped"} /\ dump_count > BUFFER_SIZE

\* C6: after n >= 1 pushes, iterating from rbegin() to rend() yields exactly
\* the min(n, BUFFER_SIZE) most recently pushed events, newest first; the
\* earlier ones are not produced.
C6_RoundTrip ==
    (UnlimitedDump /\ Len(logged[0]) >= 1) =>
        /\ IsPrefix(out, ExpectedLines(0))
        /\ Len(out) = dump_n
        /\ phase = "dumped" => Len(out) = Min(Len(logged[0]), BUFFER_SIZE)

\* C6 witness: BUFFER_SIZE + 2 events were pushed and the traversal ended
\* after BUFFER_SIZE of them.
C6_Witness ==
    /\ phase = "dumped"
    /\ dump_count > BUFFER_SIZE
    /\ Len(logged[0]) = BUFFER_SIZE + 2
    /\ Len(out) = BUFFER_SIZE

\* C7: on a buffer nothing was pushed into, rbegin() equals rend(); dump
\* prints nothing and its loop ends at the first test, and the merge prints
\* nothing for that buffer and ends at once when both buffers are empty.
C7_EmptyBuffer ==
    \A b \in Buffers :
        logged[b] = <<>> =>
            /\ IterEq(rbegin(b), rend(b))
            /\ LinesOf(b) = <<>>
            /\ (phase = "dump" /\ dump_id = b) => IterEq(dump_current, dump_end)
            /\ (phase \in {"merge", "merged"}) => IterEq(itor[b], end[b])
            /\ (phase = "merge" /\ \A c \in Buffers : logged[c] = <<>>)
                  => LatestItor = count

\* C7 witness: a dump with a positive limit of the empty buffer has ended
\* with nothing printed.
C7_Witness ==
    /\ phase = "dumped"
    /\ logged[0] = <<>>
    /\ dump_count = BUFFER_SIZE
    /\ out = <<>>

\* Whether the iterators of the running dump / merge were ever advanced:
\* dump's current once per printed line, rend()'s result once for an empty
\* buffer and never otherwise, the merge's itor[b] once per line of b.
DumpAdvanced == dump_n > 0 \/ logged[dump_id] = <<>>
MergeAdvanced(b) == LinesOf(b) # <<>> \/ logged[b] = <<>>

\* C8: two iterators never advanced compare unequal even at the same index;
\* once one of them was advanced they compare equal exactly when their
\* indices are equal.
C8_IteratorEquality ==
    /\ \A b \in Buffers :
          Len(logged[b]) >= BUFFER_SIZE =>
              /\ rbegin(b).m_current = rend(b).m_current
              /\ IterNe(rbegin(b), rend(b))
    /\ phase \in {"dump", "dumped"} =>
          IF DumpAdvanced
          THEN IterEq(dump_current, dump_end)
                   <=> (dump_current.m_current = dump_end.m_current)
          ELSE IterNe(dump_current, dump_end)
    /\ phase \in {"merge", "merged"} =>
          \A b \in Buffers :
              IF MergeAdvanced(b)
              THEN IterEq(itor[b], end[b])
                       <=> (itor[b].m_current = end[b].m_current)
              ELSE IterNe(itor[b], end[b])

\* C8 witness: the dump of a full buffer before its first step: current and
\* end, neither advanced, hold the same index.
C8_Witness ==
    /\ phase = "dump"
    /\ dump_n = 0
    /\ Len(logged[0]) >= BUFFER_SIZE
    /\ dump_current.m_current = dump_end.m_current

\* The elapsed times and ids of the printed lines.
Printed == [k \in 1..Len(out) |-> <<out[k].elapsed, out[k].id>>]

Stamps(b) == [k \in 1..Len(logged[b]) |-> logged[b][k].timestamp]

\* C9: the merge prints the events in descending timestamp order, each with
\* the index of the buffer it came from; buffers [10, 30, 50] and [20, 40]
\* give 50, 40, 30, 20, 10 with ids 0, 1, 0, 1, 0.
C9_MergeOrder ==
    /\ \A k \in 1..(Len(out) - 1) : out[k].elapsed >= out[k + 1].elapsed
    /\ \A b \in Buffers : IsPrefix(LinesOf(b), ExpectedLines(b))
    /\ (/\ phase = "merged"
        /\ Stamps(0) = <<10, 30, 50>>
        /\ Stamps(1) = <<20, 40>>)
          => Printed = <<(<<50, 0>>), (<<40, 1>>), (<<30, 0>>), (<<20, 1>>),
                         (<<10, 0>>)>>

\* C9 witness: the merge of [10, 30, 50] and [20, 40] has ended.
C9_Witness ==
    /\ phase = "merged"
    /\ Stamps(0) = <<10, 30, 50>>
    /\ Stamps(1) = <<20, 40>>
    /\ Len(out) = 5

\* The iterators the scan still considers, and those among them whose
\* current entry carries the largest timestamp.
Live == {i \in Buffers : IterNe(itor[i], end[i]) /\ EventBool(Deref(itor[i]))}

Tied == {i \in Live : \A j \in Live :
                         Deref(itor[i]).timestamp >= Deref(itor[j]).timestamp}

MinOf(S) == CHOOSE x \in S : \A y \in S : x <= y

\* C10 as claimed: when several live cursors share the largest timestamp the
\* merge emits the entry of the lowest-indexed buffer first.
C10_LowestIndexFirst ==
    (phase = "merge" /\ Cardinality(Tied) >= 2) => LatestItor = MinOf(Tied)

\* C10 as amended: when several live cursors share the largest timestamp the
\* merge emits the entry of the highest-indexed buffer first, since the
\* scan's >= lets a later equal candidate replace an earlier one; so two
\* printed neighbours of equal timestamp never go from a lower to a higher id.
C10_HighestIndexFirst ==
    /\ (phase = "merge" /\ Cardinality(Tied) >= 2) => LatestItor = MaxOf(Tied)
    /\ \A k \in 1..(Len(out) - 1) :
          out[k].elapsed = out[k + 1].elapsed => out[k].id >= out[k + 1].id

\* C10 witness: both buffers' newest events carried the same timestamp, and
\* the merge printed buffer 1's before buffer 0's.
C10_Witness ==
    /\ phase = "merged"
    /\ Len(out) >= 2
    /\ out[1].elapsed = out[2].elapsed
    /\ out[1].id = 1
    /\ out[2].id = 0


\* The number of events buffer b still holds, and of buffers 0 .. n-1.
Retained(b) == Min(Len(logged[b]), BUFFER_SIZE)

RECURSIVE RetainedBelow(_)
RetainedBelow(n) == IF n = 0 THEN 0 ELSE Retained(n - 1) + RetainedBelow(n - 1)

\* C11: for any contents of the buffers the merge advances exactly one
\* cursor per printed line, prints each buffer's retained events newest
\* first, each exactly once, and stops exactly when every cursor has reached
\* its buffer's rend(), after the sum of min(n_i, BUFFER_SIZE) lines.
C11_MergeComplete ==
    phase \in {"merge", "merged"} =>
        /\ \A b \in Buffers :
              /\ IsPrefix(LinesOf(b), ExpectedLines(b))
              /\ itor[b].m_increments = Len(LinesOf(b))
              /\ IterEq(itor[b], end[b]) <=> (Len(LinesOf(b)) = Retained(b))
        /\ \A k \in 1..Len(out) : out[k].id \in Buffers
        /\ (phase = "merged" \/ LatestItor = count)
              <=> (\A b \in Buffers : IterEq(itor[b], end[b]))
        /\ phase = "merged" => Len(out) = RetainedBelow(count)

\* C11 witness: the merge of a wrapped buffer and a partly filled one ended.
C11_Witness ==
    /\ phase = "merged"
    /\ Len(logged[0]) = BUFFER_SIZE + 1
    /\ Len(logged[1]) = 1
    /\ Len(out) = BUFFER_SIZE + 1


\* C15: dump(id, start_time, limit) of a buffer that received n pushes
\* prints exactly min(limit, n, BUFFER_SIZE) lines, the most recently pushed
\* events newest first; with limit 0 it prints nothing.
C15_DumpLimit ==
    phase \in {"dump", "dumped"} =>
        /\ IsPrefix(out, ExpectedLines(dump_id))
        /\ Len(out) = dump_n
        /\ Len(out) <= Min(dump_count, Retained(dump_id))
        /\ phase = "dumped" => Len(out) = Min(dump_count, Retained(dump_id))
        /\ dump_count = 0 => out = <<>>

\* C15 witness: a dump limited to one line of a buffer holding three events
\* ended after that line.
C15_Witness ==
    /\ phase = "dumped"
    /\ dump_count = 1
    /\ Len(logged[0]) = 3
    /\ Len(out) = 1


\* The slots of a buffer.
Slots == 0..(BUFFER_SIZE - 1)

\* What push number n + 1 finds in the slot it writes: the event of the push
\* BUFFER_SIZE pushes earlier, or a default-constructed Event.
Overwritten(b) ==
    IF Len(logged[b]) >= BUFFER_SIZE
    THEN logged[b][Len(logged[b]) - BUFFER_SIZE + 1]
    ELSE NoEvent

\* C20: a push into buffer b advances m_current by one modulo BUFFER_SIZE
\* (the first push writes slot 0), stores the event in that slot, leaves
\* every other slot and the other buffer unchanged, and the slot it
\* overwrites held the event pushed BUFFER_SIZE pushes earlier.
C20_PushFrame ==
    [][\A b \in Buffers :
         logged'[b] # logged[b] =>
           LET current == event_buffer'[b].m_current IN
           /\ current = (event_buffer[b].m_current + 1) % BUFFER_SIZE
           /\ (logged[b] = <<>>) => current = 0
           /\ event_buffer'[b].m_event[current] = logged'[b][Len(logged'[b])]
           /\ \A s \in Slots \ {current} :
                 event_buffer'[b].m_event[s] = event_buffer[b].m_event[s]
           /\ event_buffer[b].m_event[current] = Overwritten(b)
           /\ \A o \in Buffers \ {b} : event_buffer'[o] = event_buffer[o]]_vars

\* C20 witness: the push after BUFFER_SIZE pushes wrapped to slot 0 and
\* replaced the first event.
C20_Witness ==
    /\ phase = "logging"
    /\ Len(logged[0]) = BUFFER_SIZE + 1
    /\ event_buffer[0].m_current = 0
    /\ event_buffer[0].m_event[0] = logged[0][BUFFER_SIZE + 1]
    /\ event_buffer[0].m_event[1] = logged[0][2]


-----------------------------------------------------------------------------
(***************************************************************************)
(* The contract and the structure of acquire and release.                  *)
(***************************************************************************)
\* The fields of the lock as the threads can write them.
lockMemory == <<m_interested, m_thread_priority, sb>>

\* Thread t is at an assertion that its call violates.
Offending(t) ==
    \/ pc[t] = "a_assert" /\ m_interested[t]
    \/ pc[t] = "r_assert" /\ ~m_interested[t]

\* C12: acquire(p) called while interested[p] is true and release(p) called
\* while it is false abort at the assertion; neither the call nor the
\* assertion modifies interested or priority, and nothing runs after the abort.
C12_ContractAbort ==
    [][/\ \A t \in Threads : pc[t] # "aborted"
       /\ \A t \in Threads :
            (Offending(t) /\ pc'[t] # pc[t]) =>
                (pc' = Abort /\ UNCHANGED lockMemory)
       /\ (\E t \in Threads : pc'[t] = "aborted") =>
            ((\E u \in Threads : Offending(u)) /\ UNCHANGED lockMemory)
       /\ \A t \in Threads :
            (pc'[t] \in {"a_assert", "r_assert"} /\ pc'[t] # pc[t]) =>
                UNCHANGED lockMemory]_vars

\* C12 witness: thread 0 called acquire a second time and the process
\* aborted with its flag still set and thread 1 idle.
C12_Witness ==
    /\ pc = Abort
    /\ m_interested[0]
    /\ ~m_interested[1]

\* The state of a participant in the lock's state machine.
LockState(p) ==
    IF pc[p] \in IdleSide THEN "Idle"
    ELSE IF pc[p] \in Holding THEN "Holding"
    ELSE "Announced"

LockTransitions ==
    {<<"Idle", "Announced">>, <<"Announced", "Holding">>, <<"Holding", "Idle">>}

\* C16: both flags are false after construction; a participant only moves
\* Idle -> Announced -> Holding -> Idle; and under sequentially consistent
\* memory interested[p] is true exactly while p is Announced or Holding.
C16_StateMachine ==
    /\ \A p \in Threads : ~m_interested[p]
    /\ [](\A p \in Threads : m_interested[p] <=> LockState(p) # "Idle")
    /\ [][\A p \in Threads :
            \/ LockState(p)' = LockState(p)
            \/ <<LockState(p), LockState(p)'>> \in LockTransitions]_vars

\* C16 witness: thread 0 holds the lock and thread 1, announced, waits.
C16_Witness ==
    /\ pc[0] = "cs"
    /\ pc[1] = "a_wait"
    /\ m_interested[0]
    /\ m_interested[1]

\* C17: every store a thread issues goes to its own flag or to priority,
\* never to the other thread's flag, and the steps of release issue no store
\* other than the one clearing the thread's own flag.
C17_WriteFrame ==
    /\ [](\A t \in Threads : \A k \in 1..Len(sb[t]) :
            sb[t][k].loc \in {IntLoc(t), PriLoc})
    /\ [][\A t \in Threads :
            (pc[t] \in Holding /\ pc'[t] # pc[t]) =>
                /\ \/ sb'[t] = sb[t]
                   \/ sb'[t] = Append(sb[t], [loc |-> IntLoc(t), val |-> FALSE])
                /\ sb'[other_thread(t)] = sb[other_thread(t)]
                /\ UNCHANGED <<m_interested, m_thread_priority>>]_vars

\* C17 witness: both threads have stored priority, and thread 1 has released
\* with the store clearing its flag behind its store of priority.
C17_Witness ==
    /\ Pending(0, PriLoc) # {}
    /\ pc[1] = "idle"
    /\ Len(sb[1]) = 3
    /\ sb[1][2].loc = PriLoc
    /\ sb[1][3] = [loc |-> IntLoc(1), val |-> FALSE]

\* C18: whenever a thread is about to read priority in the spin condition,
\* the value it reads was stored by an acquire (its own store, still in its
\* store buffer, or a store that reached memory), never the value left by
\* the constructor.
C18_PriorityWrittenBeforeRead ==
    \A t \in Threads :
        pc[t] \in TestPriority =>
            (Pending(t, PriLoc) # {} \/ ~priorityUnwritten)

\* C18 witness: thread 0 reads priority from its own buffered store while
\* memory still holds the constructor's value.
C18_Witness ==
    /\ pc[0] = "a_test_priority"
    /\ Pending(0, PriLoc) # {}
    /\ priorityUnwritten


\* Positions of acquire from the first evaluation of the spin condition on.
Evaluating == TestInterested \cup TestPriority \cup {"a_wait"}

\* The steps of acquire in program order up to the loop, and the operands of
\* the loop condition evaluated in order.
StepOrder ==
    /\ [](\A t \in Threads : pc[t] \in TestPriority \cup {"a_wait"} => lastSeen[t])
    /\ [][\A t \in Threads :
            /\ (pc[t] = "a_set_interested" /\ pc'[t] # pc[t]) =>
                  (pc'[t] = "a_set_priority" /\ LoadInterested(t, t)')
            /\ (pc[t] = "a_set_priority" /\ pc'[t] # pc[t]) =>
                  /\ pc'[t] = IF fenced THEN "a_fence" ELSE "a_test_interested"
                  /\ LoadPriority(t)' = other_thread(t)
                  /\ LoadInterested(t, t)
            /\ (pc[t] = "a_fence" /\ pc'[t] # pc[t]) =>
                  (pc'[t] = "a_test_interested" /\ sb[t] = <<>>)
            /\ (pc'[t] = "a_test_interested" /\ pc'[t] # pc[t]) =>
                  pc[t] = IF fenced THEN "a_fence" ELSE "a_set_priority"
            /\ (pc'[t] = "a_retest_interested" /\ pc'[t] # pc[t]) =>
                  pc[t] = "a_wait"
            /\ (pc[t] \in TestPriority /\ pc'[t] # pc[t]
                  /\ LoadPriority(t) = other_thread(t)) => pc'[t] = "a_wait"
            /\ (pc[t] \in TestInterested /\ pc'[t] # pc[t]) =>
                  IF LoadInterested(t, other_thread(t))
                  THEN pc'[t] \in TestPriority ELSE pc'[t] = "cs"
            /\ waits'[t] # waits[t] =>
                  \/ pc[t] = "a_wait" /\ waits'[t] = waits[t] + 1
                  \/ pc[t] = "idle" /\ waits'[t] = 0]_vars

\* The wait function is invoked only after an evaluation that loaded
\* m_interested[other] as true and m_thread_priority as the other thread.
WaitOnlyAfterBothLoaded ==
    [][\A t \in Threads :
         (pc'[t] = "a_wait" /\ pc'[t] # pc[t]) =>
            /\ pc[t] \in TestPriority
            /\ lastSeen[t]
            /\ LoadPriority(t) = other_thread(t)]_vars

\* The wait function is invoked only after an evaluation that loaded
\* m_interested[other] as true and either loaded m_thread_priority as the
\* other thread or, at the first evaluation of a call without the fence,
\* did not load it.
WaitOnlyAfterBothObserved ==
    [][\A t \in Threads :
         (pc'[t] = "a_wait" /\ pc'[t] # pc[t]) =>
            /\ pc[t] \in TestPriority
            /\ lastSeen[t]
            /\ \/ LoadPriority(t) = other_thread(t)
               \/ pc[t] = "a_test_priority" /\ ~fenced]_vars

\* C19 as stated: the order of the steps, the wait function invoked after
\* exactly the evaluations that loaded both conditions as true, and no
\* invocation at all in a call during which the other participant stays Idle.
C19_ZeroWaitsWhenOtherIdle ==
    /\ StepOrder
    /\ WaitOnlyAfterBothLoaded
    /\ [](\A t \in Threads :
            (pc[t] \in Evaluating \cup {"cs"}
                /\ otherState[t] \in {"idle", "idle_visible"}) => waits[t] = 0)

\* C19: the order of the steps; the wait function invoked after every
\* evaluation that loaded both conditions as true and after no other, except
\* that without the fence the first evaluation of a call may wait on
\* m_interested[other] alone; and no invocation at all in a call during
\* which the other participant stays Idle with no store to its flag left in
\* its store buffer.
C19_ZeroWaitsWhenOtherIdleVisible ==
    /\ StepOrder
    /\ WaitOnlyAfterBothObserved
    /\ [](\A t \in Threads :
            (pc[t] \in Evaluating \cup {"cs"}
                /\ otherState[t] = "idle_visible") => waits[t] = 0)

\* C19 witness: thread 0 acquired without waiting while thread 1, which had
\* held the lock before, stayed idle.
C19_Witness ==
    /\ pc[0] = "cs"
    /\ otherState[0] = "idle_visible"
    /\ waits[0] = 0
    /\ pc[1] = "idle"
    /\ m_thread_priority = 1
    /\ lastSeen[1]


-----------------------------------------------------------------------------
(***************************************************************************)
(* Properties of exercise_lock.                                            *)
(***************************************************************************)
\* Positions a worker reaches only through a failed REQUIRE.
ViolationPositions ==
    {"v_release", "in_v_release", "v_try_lock", "v_stop", "v_wait",
     "v_block", "v_blocked", "v_dump"}

C14_DumpAfterQuiescence ==
    /\ [](\A t \in Threads :
            hpc[t] = "v_dump" =>
                /\ done_running[other_thread(t)]
                /\ hpc[other_thread(t)] \in {"notify", "done"})
    /\ [](phase = "merge" => \E t \in Threads : hpc[t] = "v_dump")
    /\ [][(\E t \in Threads : hpc[t] = "v_dump") =>
            (event_buffer' = event_buffer /\ logged' = logged)]_vars

\* C14 witness: thread 0 detected a violation and dumped every event of
\* both buffers, thread 1 having logged a whole iteration, the clock having
\* advanced at every call.
C14_Witness ==
    /\ hpc[0] = "v_dump"
    /\ phase = "merged"
    /\ Len(logged[1]) >= 3
    /\ \A b \in Buffers : \A k \in 1..Len(logged[b]) :
            \A c \in Buffers : \A j \in 1..Len(logged[c]) :
                (logged[b][k].timestamp = logged[c][j].timestamp) =>
                    (b = c /\ k = j)
    /\ Len(out) = Retained(0) + Retained(1)


HoldsRequireMutexAt(v) ==
    IF v = "Multithreading" THEN {"v_wait", "v_block", "v_blocked", "v_dump"}
    ELSE {"v_stop", "v_release", "in_v_release", "v_wait", "v_dump"}

\* C23: at most one thread performs the violation dump in a run.  The
\* owner of require_mutex is the one thread between its successful try_lock
\* and its unlock, only the owner runs dump_event_buffers, and require_mutex
\* is taken at most once: it is taken only before any dump has begun,
\* released only after the dump has ended, and a dump never begins again.
C23_SingleDumper ==
    /\ [](\A t \in Threads :
            (require_mutex = {t}) <=> (hpc[t] \in HoldsRequireMutexAt(variant)))
    /\ [](phase = "merge" =>
            \E t \in Threads : hpc[t] = "v_dump" /\ require_mutex = {t})
    /\ [][/\ ((require_mutex = Unlocked /\ require_mutex' # Unlocked)
                  => phase = "logging")
           /\ ((require_mutex # Unlocked /\ require_mutex' # require_mutex)
                  => (require_mutex' = Unlocked /\ phase = "merged"))
           /\ (phase # "logging" => phase' # "logging")
           /\ (phase = "merged" => phase' = "merged")]_vars

\* C23 witness: both workers of atomic_free_locking failed a REQUIRE; thread
\* 1 won require_mutex and is printing the dump, thread 0 lost try_lock and
\* has returned (still holding the Peterson lock).
C23_Witness ==
    /\ variant = "atomic_free_locking"
    /\ hpc[1] = "v_dump"
    /\ phase = "merge"
    /\ require_mutex = {1}
    /\ hpc[0] = "done"
    /\ pc[0] = "cs"


-----------------------------------------------------------------------------
\* The slots of buffer b that hold an event, and the number of pushes.
Written(b) == {s \in Slots : EventBool(peek(event_buffer[b], s))}
Pushes(b) == Len(logged[b])

\* The push (counted from 1) whose event is the oldest one still held.
OldestPush(b) == IF Pushes(b) <= BUFFER_SIZE THEN 1 ELSE Pushes(b) - BUFFER_SIZE + 1

\* Iterations of the do-while of rend() started after index next.
RECURSIVE SeekIterations(_, _)
SeekIterations(eb, next) ==
    LET n == increment(next, 1) IN
    IF EventBool(peek(eb, n)) THEN 1 ELSE 1 + SeekIterations(eb, n)

\* C24: after n pushes into a fresh buffer the written slots are
\* 0 .. min(n, BUFFER_SIZE) - 1, m_current is (n - 1) mod BUFFER_SIZE (and
\* BUFFER_SIZE - 1 for n = 0), and the slot at m_current is unwritten exactly
\* when n = 0; for n >= 1 the search of rend() ends after at most
\* BUFFER_SIZE iterations on the slot of the oldest retained event, and
\* rend() is the position before it.
C24_Occupancy ==
    \A b \in Buffers :
        LET eb == event_buffer[b] IN
        /\ Written(b) = 0..(Min(Pushes(b), BUFFER_SIZE) - 1)
        /\ eb.m_current = IF Pushes(b) = 0 THEN BUFFER_SIZE - 1
                          ELSE (Pushes(b) - 1) % BUFFER_SIZE
        /\ (~EventBool(peekCurrent(eb))) <=> (Pushes(b) = 0)
        /\ Pushes(b) >= 1 =>
              LET oldest == SeekOldest(eb, eb.m_current) IN
              /\ SeekIterations(eb, eb.m_current) <= BUFFER_SIZE
              /\ oldest = (OldestPush(b) - 1) % BUFFER_SIZE
              /\ peek(eb, oldest) = logged[b][OldestPush(b)]
              /\ rend(b) = ConstReverseIterator(b, increment(oldest, -1))

\* C24 witness: BUFFER_SIZE + 1 events were pushed, so slot 0 was written
\* twice and the oldest event is in slot 1; dump has computed rend(), the
\* position before slot 1, and has printed nothing yet.
C24_Witness ==
    /\ phase = "dump"
    /\ dump_id = 0
    /\ Pushes(0) = BUFFER_SIZE + 1
    /\ event_buffer[0].m_current = 0
    /\ dump_end = ConstReverseIterator(0, 0)
    /\ dump_n = 0


-----------------------------------------------------------------------------
\* The wait of REQUIRE in Multithreading, from the successful try_lock to
\* the return of done_running_cv.wait.
WaitingForDone == {"v_wait", "v_block", "v_blocked"}

\* C25: in Multithreading, a thread that failed a REQUIRE, won require_mutex
\* and waits on done_running_cv finishes its wait once the other thread has
\* stored its done_running flag (the store has reached memory) and has
\* called notify_all: the dump is printed and exercise_lock returns from its
\* joins.
C25_WaitFinishes ==
    \A t \in Threads :
        (/\ variant = "Multithreading"
         /\ hpc[t] \in WaitingForDone
         /\ require_mutex = {t}
         /\ hpc[other_thread(t)] = "done"
         /\ done_running[other_thread(t)])
        ~> (phase = "merged" /\ main_pc = "joined")

=============================================================================
